---- MODULE Spec2Model ----
(***************************************************************************)
(* Model of the slurm-client charm: the lifecycle handlers, the two        *)
(* relation-changed handlers that synchronise munge.key and slurm.conf     *)
(* from a remote application bucket, and the relation-joined handler that  *)
(* publishes the unit's host facts into its own slurm-compute bucket.      *)
(*                                                                         *)
(* Handlers run one at a time (the operator framework dispatches one hook  *)
(* at a time).  A handler that only touches the host is one action; the    *)
(* relation-joined handler is one action per bucket assignment, because    *)
(* the bucket is read by the remote peer.                                  *)
(***************************************************************************)
EXTENDS Integers, Sequences, FiniteSets, TLC

\* ------------------------------------------------------------------ bounds
NumContents == 2    \* distinct non-empty file contents
MaxJoins    == 2    \* relation-joined events (nonces drawn) in one behaviour
NumHosts    == 2    \* distinct host-fact configurations

\* --------------------------------------------------------------- constants
EmptyNonce  == 0    \* nonce = String("") : nothing published yet
NoneAddress == -1   \* ipv4_address falls off its loops and returns None

VARIABLES
    slurmd,         \* [installed, running] of the slurmd package / service
    munge,          \* [installed, running] of the munge package / service
    conf,           \* /etc/slurm/slurm.conf : [exists, bytes]
    key,            \* /etc/munge/munge.key  : [exists, bytes]
    ctrlBucket,     \* slurm-controller application bucket (remote owner)
    mungeBucket,    \* auth-munge application bucket (remote owner)
    computeBucket,  \* this unit's own slurm-compute bucket
    host,           \* index of the current host-fact configuration
    pc,             \* position inside the relation-joined handler, or "idle"
    ev,             \* what the current / last handler did (observation)
    tokens,         \* number of nonces drawn so far from the generator
    published       \* host facts at each nonce drawn, in order (observation)

vars == <<slurmd, munge, conf, key, ctrlBucket, mungeBucket, computeBucket,
          host, pc, ev, tokens, published>>

\* ------------------------------------------------------------------ values
Contents  == 1..NumContents          \* 0 is the empty byte string
NoFile    == [exists |-> FALSE, bytes |-> 0]
File(b)   == [exists |-> TRUE, bytes |-> b]
FileStates == {NoFile} \cup {File(b) : b \in 0..NumContents}

\* hashlib.md5(...).hexdigest(): injective on the contents of the model
md5(b) == [alg |-> "md5", of |-> b]
\* the checksum a bucket yields when no checksum was ever stored
NoChecksum == [alg |-> "", of |-> 0]
\* digestOfFile of a missing file
AbsentDigest == [alg |-> "absent", of |-> 0]

\* A file artifact as the producer stores it: data and the checksum of data.
Artifact(b) == [present |-> TRUE, data |-> b, checksum |-> md5(b)]
NoArtifact  == [present |-> FALSE, data |-> 0, checksum |-> NoChecksum]
Artifacts   == {Artifact(b) : b \in Contents}

RemoteNonces == {EmptyNonce, 1}

\* Host facts: sysprober's network info, os.cpu_count(), memavailable.
HostFacts(h) ==
    [hostname |-> h,
     ifaces   |-> IF h % 3 = 0
                  THEN << [name |-> "ens3", addr_info |-> << [family |-> "inet",  address |-> 10 + h] >>] >>
                  ELSE IF h % 2 = 1
                  THEN << [name |-> "lo",   addr_info |-> << [family |-> "inet",  address |-> 127] >>],
                          [name |-> "eth0", addr_info |-> << [family |-> "inet6", address |-> 60 + h],
                                                             [family |-> "inet",  address |-> 10 + h] >>] >>
                  ELSE << [name |-> "eth1", addr_info |-> << [family |-> "inet",  address |-> 20 + h] >>],
                          [name |-> "eth0", addr_info |-> << [family |-> "inet",  address |-> 10 + h] >>] >>,
     cpu_count   |-> 4 * h,
     memavailable |-> 1024 * h]
Hosts == 1..NumHosts

\* ---------------------------------------------------------- host observers
RECURSIVE FirstInet(_, _)
FirstInet(addrs, j) ==
    IF j > Len(addrs) THEN NoneAddress
    ELSE IF addrs[j].family = "inet" THEN addrs[j].address
    ELSE FirstInet(addrs, j + 1)

RECURSIVE Ipv4From(_, _)
Ipv4From(ifaces, i) ==
    IF i > Len(ifaces) THEN NoneAddress
    ELSE IF ifaces[i].name = "eth0" /\ FirstInet(ifaces[i].addr_info, 1) # NoneAddress
         THEN FirstInet(ifaces[i].addr_info, 1)
    ELSE Ipv4From(ifaces, i + 1)

hostname(h)     == HostFacts(h).hostname
ipv4_address(h) == Ipv4From(HostFacts(h).ifaces, 1)
cpu_count(h)    == HostFacts(h).cpu_count
free_memory(h)  == HostFacts(h).memavailable

\* ------------------------------------------------------------- the "world"
\* The part of the state a handler reads and writes on the host, threaded
\* through the operators below in the order of the handler's statements.
\*   err    : the exception that ended the handler, or "none"
\*   branch : the branch of the staleness decision the handler took
\*   trace  : the service and file operations performed, in order; each
\*            entry records whether the service was running just before it
\*   status : the status messages emitted, in order
World == [slurmd |-> slurmd, munge |-> munge, conf |-> conf, key |-> key,
          err |-> "none", branch |-> "none", trace |-> << >>, status |-> << >>]

Raise(w, e)     == IF w.err = "none" THEN [w EXCEPT !.err = e] ELSE w
Log(w, op, svc) == [w EXCEPT !.trace = Append(@, [op |-> op, svc |-> svc,
                        up |-> IF svc = "slurmd" THEN w.slurmd.running
                                                 ELSE w.munge.running])]
\* service_set_status_message(msg); service_update_status()
SetStatus(w, msg) == IF w.err = "none" THEN [w EXCEPT !.status = Append(@, msg)] ELSE w
Decide(w, d)      == IF w.err = "none" THEN [w EXCEPT !.branch = d] ELSE w

\* ------------------------------------------- SlurmClientManager (slurmd)
\* a package check that always answers yes
is_installed_AlwaysTrue(w) == TRUE

\* __is_installed(): the slurmd Debian package is present
is_installed(w) == w.slurmd.installed

\* start() that calls the service manager without looking at the state
start_NoRunningTest(w, fails) ==
    IF w.err # "none" THEN w
    ELSE IF ~is_installed(w) THEN Raise(w, "SlurmdNotFoundError")
    ELSE LET w2 == Log(Log(w, "start", "slurmd"), "service_start", "slurmd") IN
         IF fails THEN Raise(w2, "SystemdError")
         ELSE [w2 EXCEPT !.slurmd.running = TRUE]

\* start() that swallows the failure of the service manager
start_SwallowsFailure(w, fails) ==
    IF w.err # "none" THEN w
    ELSE IF ~is_installed(w) THEN Raise(w, "SlurmdNotFoundError")
    ELSE LET w1 == Log(w, "start", "slurmd") IN
         IF ~w1.slurmd.running
         THEN LET w2 == Log(w1, "service_start", "slurmd") IN
              IF fails THEN w2 ELSE [w2 EXCEPT !.slurmd.running = TRUE]
         ELSE w1

\* start(): `fails` says whether systemd refuses the start
start(w, fails) ==
    IF w.err # "none" THEN w
    ELSE IF ~is_installed(w) THEN Raise(w, "SlurmdNotFoundError")
    ELSE LET w1 == Log(w, "start", "slurmd") IN
         IF ~w1.slurmd.running
         THEN LET w2 == Log(w1, "service_start", "slurmd") IN
              IF fails THEN Raise(w2, "SystemdError")
              ELSE [w2 EXCEPT !.slurmd.running = TRUE]
         ELSE w1

\* stop() without the test of the package
stop_NoInstalledTest(w, fails) ==
    IF w.err # "none" THEN w
    ELSE LET w1 == Log(w, "stop", "slurmd") IN
         IF w1.slurmd.running
         THEN LET w2 == Log(w1, "service_stop", "slurmd") IN
              IF fails THEN Raise(w2, "SystemdError")
              ELSE [w2 EXCEPT !.slurmd.running = FALSE]
         ELSE w1

\* stop()
stop(w, fails) ==
    IF w.err # "none" THEN w
    ELSE IF ~is_installed(w) THEN Raise(w, "SlurmdNotFoundError")
    ELSE LET w1 == Log(w, "stop", "slurmd") IN
         IF w1.slurmd.running
         THEN LET w2 == Log(w1, "service_stop", "slurmd") IN
              IF fails THEN Raise(w2, "SystemdError")
              ELSE [w2 EXCEPT !.slurmd.running = FALSE]
         ELSE w1

\* restart() that only stops the daemon
restart_StopsOnly(w, fails) ==
    IF w.err # "none" THEN w
    ELSE IF ~is_installed(w) THEN Raise(w, "SlurmdNotFoundError")
    ELSE LET w1 == Log(Log(w, "restart", "slurmd"), "service_stop", "slurmd") IN
         IF fails THEN Raise(w1, "SystemdError")
         ELSE [w1 EXCEPT !.slurmd.running = FALSE]

\* restart(): service_restart("slurmd"), whatever the current state
restart(w, fails) ==
    IF w.err # "none" THEN w
    ELSE IF ~is_installed(w) THEN Raise(w, "SlurmdNotFoundError")
    ELSE LET w1 == Log(Log(w, "restart", "slurmd"), "service_restart", "slurmd") IN
         IF fails THEN Raise(w1, "SystemdError")
         ELSE [w1 EXCEPT !.slurmd.running = TRUE]

\* install(): apt errors are logged and swallowed
install(w, fails) ==
    IF w.err # "none" THEN w
    ELSE LET w1 == Log(w, "add_package", "slurmd") IN
         IF fails THEN w1 ELSE [w1 EXCEPT !.slurmd.installed = TRUE]

\* hash: md5 of munge.key, provided slurm.conf is a file
hash(w) ==
    IF w.conf.exists
    THEN IF w.key.exists
         THEN [err |-> "none", val |-> md5(w.key.bytes)]
         ELSE [err |-> "FileNotFoundError", val |-> NoChecksum]
    ELSE [err |-> "SlurmConfNotFoundError", val |-> NoChecksum]

\* os.remove("/etc/slurm/slurm.conf") when it is a file
remove_conf(w, fails) ==
    IF w.err # "none" THEN w
    ELSE IF w.conf.exists
         THEN LET w1 == Log(w, "remove", "slurmd") IN
              IF fails THEN Raise(w1, "OSError")
              ELSE [w1 EXCEPT !.conf = NoFile]
         ELSE w

\* conf.save(path): create-or-truncate, then write the bytes.
\*   fail = "save_open"  : the file could not be created
\*   fail = "save_write" : created (empty), the write of the bytes failed
save_conf(w, data, fail) ==
    IF w.err # "none" THEN w
    ELSE IF fail = "save_open" THEN Raise(w, "OSError")
    ELSE LET w1 == Log(w, "write", "slurmd") IN
         IF fail = "save_write" THEN Raise([w1 EXCEPT !.conf = File(0)], "OSError")
         ELSE [w1 EXCEPT !.conf = File(data)]

\* write_new_conf that starts the daemon again only if it was running
write_new_conf_KeepsStopped(w, data, fail) ==
    IF w.err # "none" THEN w
    ELSE IF is_installed(w)
    THEN LET w1 == stop(w, fail = "stop")
             w2 == remove_conf(w1, fail = "remove")
             w3 == save_conf(w2, data, fail)
         IN  IF w.slurmd.running THEN start(w3, fail = "start") ELSE w3
    ELSE Raise(w, "SlurmdNotFoundError")

\* write_new_conf that starts the daemon again before the file is in place
write_new_conf_StartFirst(w, data, fail) ==
    IF w.err # "none" THEN w
    ELSE IF is_installed(w)
    THEN LET w1 == stop(w, fail = "stop")
             w2 == remove_conf(w1, fail = "remove")
             w3 == start(w2, fail = "start")
         IN  save_conf(w3, data, fail)
    ELSE Raise(w, "SlurmdNotFoundError")

\* write_new_conf that replaces the file without stopping the daemon first
write_new_conf_NoStop(w, data, fail) ==
    IF w.err # "none" THEN w
    ELSE IF is_installed(w)
    THEN LET w2 == remove_conf(w, fail = "remove")
             w3 == save_conf(w2, data, fail)
         IN  start(w3, fail = "start")
    ELSE Raise(w, "SlurmdNotFoundError")

\* write_new_conf(conf)
write_new_conf(w, data, fail) ==
    IF w.err # "none" THEN w
    ELSE IF is_installed(w)
    THEN LET w1 == stop(w, fail = "stop")
             w2 == remove_conf(w1, fail = "remove")
             w3 == save_conf(w2, data, fail)
         IN  start(w3, fail = "start")
    ELSE Raise(w, "SlurmdNotFoundError")

ApplyFails == {"none", "stop", "remove", "save_open", "save_write", "start"}

\* --------------------------------------------------- MungeManager (munge)
\* install(): apt cache lookup and commit, nothing is caught
munge_install(w, fails) ==
    IF w.err # "none" THEN w
    ELSE LET w1 == Log(w, "add_package", "munge") IN
         IF fails THEN Raise(w1, "AptError") ELSE [w1 EXCEPT !.munge.installed = TRUE]

\* start(): StartUnit("munge.service", "fail"), whatever the current state
munge_start(w, fails) ==
    IF w.err # "none" THEN w
    ELSE LET w1 == Log(Log(w, "start", "munge"), "service_start", "munge") IN
         IF ~w.munge.installed \/ fails THEN Raise(w1, "DBusException")
         ELSE [w1 EXCEPT !.munge.running = TRUE]

\* stop(): StopUnit("munge.service", "fail"), whatever the current state
munge_stop(w, fails) ==
    IF w.err # "none" THEN w
    ELSE LET w1 == Log(Log(w, "stop", "munge"), "service_stop", "munge") IN
         IF ~w.munge.installed \/ fails THEN Raise(w1, "DBusException")
         ELSE [w1 EXCEPT !.munge.running = FALSE]

\* ------------------------- SlurmClientManager of utils/slurm_mngr (dbus)
\* start(): StartUnit("slurmd.service", "fail"), whatever the current state
slurm_mngr_start(w, fails) ==
    IF w.err # "none" THEN w
    ELSE LET w1 == Log(Log(w, "start", "slurmd"), "service_start", "slurmd") IN
         IF ~w.slurmd.installed \/ fails THEN Raise(w1, "DBusException")
         ELSE [w1 EXCEPT !.slurmd.running = TRUE]

\* stop(): StopUnit("slurmd.service", "fail"), whatever the current state
slurm_mngr_stop(w, fails) ==
    IF w.err # "none" THEN w
    ELSE LET w1 == Log(Log(w, "stop", "slurmd"), "service_stop", "slurmd") IN
         IF ~w.slurmd.installed \/ fails THEN Raise(w1, "DBusException")
         ELSE [w1 EXCEPT !.slurmd.running = FALSE]

\* get_hash(): the digest of the key file, Absent when there is none
munge_get_hash(w) ==
    IF w.key.exists THEN md5(w.key.bytes) ELSE AbsentDigest

\* save_file(data, key_file_path, ...): the guarded replace of the key file
munge_save_file(w, data, fail) ==
    IF w.err # "none" THEN w
    ELSE IF ~w.munge.installed THEN Raise(w, "ServiceNotInstalled")
    ELSE LET w1 == munge_stop(w, fail = "stop")
             w2 == IF w1.err # "none" THEN w1
                   ELSE IF fail = "save_open" THEN Raise(w1, "OSError")
                   ELSE IF fail = "save_write"
                        THEN Raise([Log(w1, "write", "munge") EXCEPT !.key = File(0)], "OSError")
                   ELSE [Log(w1, "write", "munge") EXCEPT !.key = File(data)]
         IN  munge_start(w2, fail = "start")

\* ------------------------------------------------------- bucket interfaces
\* iface.<file field>: what the handler gets when it reads the artifact of a
\* bucket.  The field may not have been written yet; the interface library
\* then either raises or yields an artifact of default values.
ReadArtifact(art, missing) ==
    IF art.present THEN [err |-> "none", data |-> art.data, checksum |-> art.checksum]
    ELSE IF missing = "raise"
         THEN [err |-> "AttributeError", data |-> 0, checksum |-> NoChecksum]
         ELSE [err |-> "none", data |-> 0, checksum |-> NoChecksum]

\* the outcomes of reading the file field of a bucket
MissingReads(art) == IF art.present THEN {"default"} ELSE {"raise", "default"}

DefaultCompute == [nonce |-> EmptyNonce, hostname |-> 0, ip_address |-> 0,
                   cpu_count |-> 0, free_memory |-> 0]

\* a nonce generator that returns the same token every time
create_nonce_Fixed(n) == 1

\* __create_nonce(): secrets.token_urlsafe(), a token never returned before
create_nonce(n) == n + 1

\* ------------------------------------------------------- handlers (charm)
\* _service_install
service_install(w, fail) ==
    LET w1 == SetStatus(w, "Installing munge")
        w2 == munge_install(w1, fail = "munge")
        w3 == SetStatus(w2, "Installing slurmd")
        w4 == install(w3, fail = "slurmd")
    IN  SetStatus(w4, "")

\* _service_start
service_start(w, fail) ==
    LET w1 == SetStatus(w, "Starting munge")
        w2 == munge_start(w1, fail = "munge")
        w3 == SetStatus(w2, "Starting slurmd")
        w4 == start(w3, fail = "slurmd")
    IN  SetStatus(w4, "")

\* _service_stop that stops munge first
service_stop_MungeFirst(w, fail) ==
    LET w1 == SetStatus(w, "Stopping munge")
        w2 == munge_stop(w1, fail = "munge")
        w3 == SetStatus(w2, "Stopping slurmd")
        w4 == stop(w3, fail = "slurmd")
    IN  SetStatus(w4, "Slurm client is not active.")

\* _service_stop
service_stop(w, fail) ==
    LET w1 == SetStatus(w, "Stopping slurmd")
        w2 == stop(w1, fail = "slurmd")
        w3 == SetStatus(w2, "Stopping munge")
        w4 == munge_stop(w3, fail = "munge")
    IN  SetStatus(w4, "Slurm client is not active.")

LifecycleFails == {"none", "munge", "slurmd"}

\* _auth_munge_relation_changed
auth_munge_relation_changed(w, iface, missing, fail) ==
    LET w1 == SetStatus(w, "New munge key detected") IN
    IF iface.nonce = EmptyNonce
    THEN SetStatus(Decide(w1, "NotReady"), "Munge key is not ready")
    ELSE LET art == ReadArtifact(iface.munge_key, missing) IN
         IF art.err # "none" THEN Raise(w1, art.err)
         ELSE IF munge_get_hash(w1) # art.checksum
         THEN SetStatus(munge_save_file(Decide(w1, "NeedsUpdate"), art.data, fail),
                        "Munge key updated")
         ELSE SetStatus(Decide(w1, "UpToDate"), "Munge key not updated")

\* the handler with the test of the nonce left out
slurm_controller_relation_changed_NoNonceTest(w, iface, missing, fail) ==
    LET w1  == SetStatus(w, "New slurm configuration detected")
        h   == hash(w1)
        art == ReadArtifact(iface.slurm_conf, missing)
    IN  IF h.err # "none" THEN Raise(w1, h.err)
        ELSE IF art.err # "none" THEN Raise(w1, art.err)
        ELSE IF h.val # art.checksum
        THEN SetStatus(write_new_conf(Decide(w1, "NeedsUpdate"), art.data, fail),
                       "Slurm configuration updated")
        ELSE SetStatus(Decide(w1, "UpToDate"),
                       "Slurm configuration does not need to be updated")

\* _slurm_controller_relation_changed
slurm_controller_relation_changed(w, iface, missing, fail) ==
    LET w1 == SetStatus(w, "New slurm configuration detected") IN
    IF iface.nonce = EmptyNonce
    THEN SetStatus(Decide(w1, "NotReady"), "Configuration is not ready yet")
    ELSE LET h   == hash(w1)
             art == ReadArtifact(iface.slurm_conf, missing)
         IN  IF h.err # "none" THEN Raise(w1, h.err)
             ELSE IF art.err # "none" THEN Raise(w1, art.err)
             ELSE IF h.val # art.checksum
             THEN SetStatus(write_new_conf(Decide(w1, "NeedsUpdate"), art.data, fail),
                            "Slurm configuration updated")
             ELSE SetStatus(Decide(w1, "UpToDate"),
                            "Slurm configuration does not need to be updated")

\* ------------------------------------------------------------------ state
\* `tick` flips at every hook, so that two hooks in a row with the same
\* outcome are two states.
NoEvent == [name |-> "none", tick |-> 0, err |-> "none", branch |-> "none",
            trace |-> << >>, status |-> << >>]

Init ==
    /\ slurmd = [installed |-> FALSE, running |-> FALSE]
    /\ munge  = [installed |-> FALSE, running |-> FALSE]
    /\ conf \in {NoFile} \cup {File(b) : b \in Contents}
    /\ key  \in {NoFile} \cup {File(b) : b \in Contents}
    /\ ctrlBucket  = [nonce |-> EmptyNonce, slurm_conf |-> NoArtifact]
    /\ mungeBucket = [nonce |-> EmptyNonce, munge_key |-> NoArtifact]
    /\ computeBucket = DefaultCompute
    /\ host \in Hosts
    /\ pc = "idle"
    /\ ev = NoEvent
    /\ tokens = 0
    /\ published = << >>

\* The handler's effects on the host become the new state.
Commit(w, name) ==
    /\ slurmd' = w.slurmd
    /\ munge'  = w.munge
    /\ conf'   = w.conf
    /\ key'    = w.key
    /\ ev'     = [name |-> name, tick |-> 1 - ev.tick, err |-> w.err,
                  branch |-> w.branch, trace |-> w.trace, status |-> w.status]

Install ==
    /\ pc = "idle"
    /\ \E fail \in LifecycleFails : Commit(service_install(World, fail), "install")
    /\ UNCHANGED <<ctrlBucket, mungeBucket, computeBucket, host, pc, tokens, published>>

Start ==
    /\ pc = "idle"
    /\ \E fail \in LifecycleFails : Commit(service_start(World, fail), "start")
    /\ UNCHANGED <<ctrlBucket, mungeBucket, computeBucket, host, pc, tokens, published>>

Stop ==
    /\ pc = "idle"
    /\ \E fail \in LifecycleFails : Commit(service_stop(World, fail), "stop")
    /\ UNCHANGED <<ctrlBucket, mungeBucket, computeBucket, host, pc, tokens, published>>

AuthMungeRelationChanged ==
    /\ pc = "idle"
    /\ \E missing \in MissingReads(mungeBucket.munge_key), fail \in ApplyFails :
           Commit(auth_munge_relation_changed(World, mungeBucket, missing, fail),
                  "auth_munge_relation_changed")
    /\ UNCHANGED <<ctrlBucket, mungeBucket, computeBucket, host, pc, tokens, published>>

\* the slurm-controller hook that also clears the nonce of the bucket it read
SlurmControllerRelationChanged_ClearsNonce ==
    /\ pc = "idle"
    /\ \E missing \in MissingReads(ctrlBucket.slurm_conf), fail \in ApplyFails :
           Commit(slurm_controller_relation_changed(World, ctrlBucket, missing, fail),
                  "slurm_controller_relation_changed")
    /\ ctrlBucket' = [ctrlBucket EXCEPT !.nonce = EmptyNonce]
    /\ UNCHANGED <<mungeBucket, computeBucket, host, pc, tokens, published>>

SlurmControllerRelationChanged ==
    /\ pc = "idle"
    /\ \E missing \in MissingReads(ctrlBucket.slurm_conf), fail \in ApplyFails :
           Commit(slurm_controller_relation_changed(World, ctrlBucket, missing, fail),
                  "slurm_controller_relation_changed")
    /\ UNCHANGED <<ctrlBucket, mungeBucket, computeBucket, host, pc, tokens, published>>

\* The remote application writes its own buckets: the nonce and the file
\* field are separate keys, so either may be there without the other.
RemoteWritesController ==
    /\ \E n \in RemoteNonces, a \in Artifacts \cup {NoArtifact} :
           /\ ctrlBucket' = [nonce |-> n, slurm_conf |-> a]
           /\ ctrlBucket' # ctrlBucket
    /\ UNCHANGED <<slurmd, munge, conf, key, mungeBucket, computeBucket, host,
                   pc, ev, tokens, published>>

RemoteWritesMunge ==
    /\ \E n \in RemoteNonces, a \in Artifacts \cup {NoArtifact} :
           /\ mungeBucket' = [nonce |-> n, munge_key |-> a]
           /\ mungeBucket' # mungeBucket
    /\ UNCHANGED <<slurmd, munge, conf, key, ctrlBucket, computeBucket, host,
                   pc, ev, tokens, published>>

\* The host's facts change between two hooks.
HostChanges ==
    /\ pc = "idle"
    /\ \E h \in Hosts : h # host /\ host' = h
    /\ UNCHANGED <<slurmd, munge, conf, key, ctrlBucket, mungeBucket, computeBucket,
                   pc, ev, tokens, published>>

\* _slurm_compute_relation_joined, one action per statement that writes the
\* unit's bucket.
JoinBegin ==
    /\ pc = "idle"
    /\ Len(published) < MaxJoins
    /\ ev' = [NoEvent EXCEPT !.name = "slurm_compute_relation_joined",
                             !.tick = 1 - ev.tick,
                             !.status = << "Serving information to detected controller" >>]
    /\ pc' = "nonce"
    /\ UNCHANGED <<slurmd, munge, conf, key, ctrlBucket, mungeBucket, computeBucket,
                   host, tokens, published>>

JoinStep(at, next, field, value) ==
    /\ pc = at
    /\ computeBucket' = [computeBucket EXCEPT ![field] = value]
    /\ ev' = [ev EXCEPT !.trace = Append(@, [op |-> "set", svc |-> field, up |-> FALSE])]
    /\ pc' = next
    /\ UNCHANGED <<slurmd, munge, conf, key, ctrlBucket, mungeBucket, host>>

JoinNonce ==
    /\ JoinStep("nonce", "hostname", "nonce", create_nonce(tokens))
    /\ tokens' = create_nonce(tokens)
    /\ published' = Append(published,
                           [nonce |-> create_nonce(tokens), hostname |-> hostname(host),
                            ip_address |-> ipv4_address(host), cpu_count |-> cpu_count(host),
                            free_memory |-> free_memory(host)])

JoinHostname ==
    /\ JoinStep("hostname", "ip_address", "hostname", hostname(host))
    /\ UNCHANGED <<tokens, published>>

JoinIpAddress ==
    /\ JoinStep("ip_address", "cpu_count", "ip_address", ipv4_address(host))
    /\ UNCHANGED <<tokens, published>>

JoinCpuCount ==
    /\ JoinStep("cpu_count", "free_memory", "cpu_count", cpu_count(host))
    /\ UNCHANGED <<tokens, published>>

JoinFreeMemory ==
    /\ JoinStep("free_memory", "served", "free_memory", free_memory(host))
    /\ UNCHANGED <<tokens, published>>

JoinEnd ==
    /\ pc = "served"
    /\ ev' = [ev EXCEPT !.status = Append(@, "Information served")]
    /\ pc' = "idle"
    /\ UNCHANGED <<slurmd, munge, conf, key, ctrlBucket, mungeBucket, computeBucket,
                   host, tokens, published>>

\* The managers called directly, as the scriptlets of the tests call them.
ManagerCall(w, name) ==
    /\ pc = "idle"
    /\ Commit(w, name)
    /\ UNCHANGED <<ctrlBucket, mungeBucket, computeBucket, host, pc, tokens, published>>

MgrInstall      == \E f \in BOOLEAN : ManagerCall(install(World, f), "SlurmClientManager.install")
MgrStart        == \E f \in BOOLEAN : ManagerCall(start(World, f), "SlurmClientManager.start")
MgrStop         == \E f \in BOOLEAN : ManagerCall(stop(World, f), "SlurmClientManager.stop")
MgrRestart      == \E f \in BOOLEAN : ManagerCall(restart(World, f), "SlurmClientManager.restart")
SlurmMngrStart  == \E f \in BOOLEAN : ManagerCall(slurm_mngr_start(World, f), "slurm_mngr.start")
SlurmMngrStop   == \E f \in BOOLEAN : ManagerCall(slurm_mngr_stop(World, f), "slurm_mngr.stop")
MungeMgrInstall == \E f \in BOOLEAN : ManagerCall(munge_install(World, f), "MungeManager.install")
MungeMgrStart   == \E f \in BOOLEAN : ManagerCall(munge_start(World, f), "MungeManager.start")
MungeMgrStop    == \E f \in BOOLEAN : ManagerCall(munge_stop(World, f), "MungeManager.stop")

ManagerNext ==
    \/ MgrInstall
    \/ MgrStart
    \/ MgrStop
    \/ MgrRestart
    \/ SlurmMngrStart
    \/ SlurmMngrStop
    \/ MungeMgrInstall
    \/ MungeMgrStart
    \/ MungeMgrStop

\* The lifecycle and synchronisation handlers with the remote application.
SyncNext ==
    \/ Install
    \/ Start
    \/ Stop
    \/ AuthMungeRelationChanged
    \/ SlurmControllerRelationChanged
    \/ RemoteWritesController
    \/ RemoteWritesMunge

\* The publication of the unit's host facts.
PublishNext ==
    \/ HostChanges
    \/ JoinBegin
    \/ JoinNonce
    \/ JoinHostname
    \/ JoinIpAddress
    \/ JoinCpuCount
    \/ JoinFreeMemory
    \/ JoinEnd

Next == SyncNext \/ PublishNext

Spec == Init /\ [][Next]_vars

\* The two halves share no state but the observation `ev`; each is also
\* checked on its own.
SyncInit    == Init /\ host = 1
SyncSpec    == SyncInit /\ [][SyncNext]_vars
PublishSpec == Init /\ [][PublishNext]_vars
ManagerSpec == SyncInit /\ [][ManagerNext]_vars

\* A notification of the slurm-controller bucket handled with no failure of
\* the service manager or of the filesystem.
NotifyNoFault ==
    /\ pc = "idle"
    /\ \E missing \in MissingReads(ctrlBucket.slurm_conf) :
           Commit(slurm_controller_relation_changed(World, ctrlBucket, missing, "none"),
                  "slurm_controller_relation_changed")
    /\ UNCHANGED <<ctrlBucket, mungeBucket, computeBucket, host, pc, tokens, published>>

\* The slurm.conf side alone: the unit is installed and started, the remote
\* application publishes, and notifications keep being handled.
ConvergeNext ==
    \/ Install
    \/ Start
    \/ RemoteWritesController
    \/ SlurmControllerRelationChanged

ConvergeSpec == SyncInit /\ [][ConvergeNext]_vars /\ WF_vars(NotifyNoFault)

\* All the hooks of the unit on one host, with the remote application writing
\* its buckets.
FrameNext ==
    \/ SyncNext
    \/ JoinBegin
    \/ JoinNonce
    \/ JoinHostname
    \/ JoinIpAddress
    \/ JoinCpuCount
    \/ JoinFreeMemory
    \/ JoinEnd

FrameSpec == SyncInit /\ [][FrameNext]_vars

\* The install, start and stop events alone.
LifecycleNext ==
    \/ Install
    \/ Start
    \/ Stop

LifecycleSpec == SyncInit /\ [][LifecycleNext]_vars

\* The calls of the managers and the lifecycle events that make them.
ServiceNext == ManagerNext \/ LifecycleNext

ServiceSpec == SyncInit /\ [][ServiceNext]_vars

TypeOK ==
    /\ slurmd \in [installed : BOOLEAN, running : BOOLEAN]
    /\ munge  \in [installed : BOOLEAN, running : BOOLEAN]
    /\ conf \in FileStates
    /\ key  \in FileStates
    /\ host \in Hosts
    /\ tokens \in 0..MaxJoins

\* ============================================================ properties
Decisions == {"NotReady", "UpToDate", "NeedsUpdate"}

\* positions of an operation on a service in the trace of a hook
Ops(e, op, svc) == {i \in DOMAIN e.trace : e.trace[i].op = op /\ e.trace[i].svc = svc}

\* the service a relation-changed handler restarts
ServiceOf(name) == IF name = "auth_munge_relation_changed" THEN "munge" ELSE "slurmd"
IsChanged(e) == e.name \in {"auth_munge_relation_changed",
                            "slurm_controller_relation_changed"}

\* this step is a run of the named handler
Ran(name) == ev'.name = name /\ ev'.tick # ev.tick
AuthMungeRan       == Ran("auth_munge_relation_changed")
SlurmControllerRan == Ran("slurm_controller_relation_changed")

\* digestOfFile: the fingerprint of a local file, Absent when there is none
LocalDigest(f) == IF f.exists THEN md5(f.bytes) ELSE AbsentDigest

\* C1: in a relation-changed hook that decided NeedsUpdate, the service is
\* stopped at most once, the file is written at most once and the service is
\* started at most once; every removal or write of the file comes after the
\* stop and happens while the service is not running; every start comes
\* after the write; and a hook that ends without an error did exactly one
\* stop, then one write, then one start.
C1_StopWriteStart ==
    (IsChanged(ev) /\ ev.branch = "NeedsUpdate") =>
        LET svc    == ServiceOf(ev.name)
            stops  == Ops(ev, "stop", svc)
            writes == Ops(ev, "write", svc)
            rems   == Ops(ev, "remove", svc)
            starts == Ops(ev, "start", svc)
        IN  /\ Cardinality(stops) <= 1
            /\ Cardinality(writes) <= 1
            /\ Cardinality(starts) <= 1
            /\ \A i \in writes \cup rems :
                   /\ ~ev.trace[i].up
                   /\ \E j \in stops : j < i
            /\ \A k \in starts : \E i \in writes : i < k
            /\ ev.err = "none" =>
                   /\ Cardinality(stops) = 1
                   /\ Cardinality(writes) = 1
                   /\ Cardinality(starts) = 1
                   /\ ~ev.trace[Len(ev.trace)].up

\* a slurm.conf update that found slurmd running, stopped it, replaced the
\* file and started it again
C1_Witness ==
    /\ ev.name = "slurm_controller_relation_changed"
    /\ ev.branch = "NeedsUpdate"
    /\ ev.err = "none"
    /\ Ops(ev, "service_stop", "slurmd") # {}
    /\ Ops(ev, "write", "slurmd") # {}
    /\ Ops(ev, "service_start", "slurmd") # {}
    /\ slurmd.running

\* C2 (as claimed, on a unit where both local files exist): every
\* relation-changed hook takes exactly one decision; a stop, start, removal
\* or write happens only when it is NeedsUpdate; and on a published bucket
\* it is NeedsUpdate exactly when the published digest differs from the
\* digest of the local file, and UpToDate with no operation when they are
\* equal.
C2_Body(step, bucket, art, file) ==
    (step /\ conf.exists /\ key.exists /\ (bucket.nonce # EmptyNonce => art.present)) =>
        /\ ev'.branch \in Decisions
        /\ ev'.trace # << >> => ev'.branch = "NeedsUpdate"
        /\ bucket.nonce = EmptyNonce => ev'.branch # "NeedsUpdate"
        /\ (bucket.nonce # EmptyNonce /\ art.present) =>
               /\ ev'.branch = "NeedsUpdate" <=> art.checksum # LocalDigest(file)
               /\ art.checksum = LocalDigest(file) =>
                      (ev'.branch = "UpToDate" /\ ev'.trace = << >>)

C2_DecisionIffDigestsDiffer ==
    [][ /\ C2_Body(AuthMungeRan, mungeBucket, mungeBucket.munge_key, key)
        /\ C2_Body(SlurmControllerRan, ctrlBucket, ctrlBucket.slurm_conf, conf)
      ]_vars

\* C3: a relation-changed hook that reads an empty nonce decides NotReady:
\* it performs no service or file operation, leaves both files and both
\* services as they were, raises nothing and reports "not ready".
C3_Body(step, bucket, msgs) ==
    (step /\ bucket.nonce = EmptyNonce) =>
        /\ ev'.branch = "NotReady"
        /\ ev'.err = "none"
        /\ ev'.trace = << >>
        /\ ev'.status = msgs
        /\ <<conf', key', slurmd', munge'>> = <<conf, key, slurmd, munge>>

C3_EmptyNonceNotReady ==
    [][ /\ C3_Body(AuthMungeRan, mungeBucket,
                   << "New munge key detected", "Munge key is not ready" >>)
        /\ C3_Body(SlurmControllerRan, ctrlBucket,
                   << "New slurm configuration detected", "Configuration is not ready yet" >>)
      ]_vars

\* the slurm-controller hook ran on a bucket that carries a file stale for
\* this unit but no nonce
C3_Witness ==
    /\ ev.name = "slurm_controller_relation_changed"
    /\ ev.branch = "NotReady"
    /\ ctrlBucket.nonce = EmptyNonce
    /\ ctrlBucket.slurm_conf.present
    /\ conf.exists /\ key.exists /\ slurmd.installed
    /\ md5(key.bytes) # ctrlBucket.slurm_conf.checksum
    /\ md5(conf.bytes) # ctrlBucket.slurm_conf.checksum

\* C4 (as claimed, on a unit where both local files exist): a
\* relation-changed hook that reads a non-empty nonce but no file field
\* decides NotReady: it raises nothing, performs no service or file
\* operation, leaves the files alone and reports "not ready".
C4_Body(step, bucket, art, msg) ==
    (step /\ conf.exists /\ key.exists /\ bucket.nonce # EmptyNonce /\ ~art.present) =>
        /\ ev'.branch = "NotReady"
        /\ ev'.err = "none"
        /\ ev'.trace = << >>
        /\ ev'.status[Len(ev'.status)] = msg
        /\ <<conf', key'>> = <<conf, key>>

C4_IncompleteBucketNotReady ==
    [][ /\ C4_Body(AuthMungeRan, mungeBucket, mungeBucket.munge_key,
                   "Munge key is not ready")
        /\ C4_Body(SlurmControllerRan, ctrlBucket, ctrlBucket.slurm_conf,
                   "Configuration is not ready yet")
      ]_vars

\* the last hook was a slurm.conf update that ended without an error
AppliedConf(e) ==
    /\ e.name = "slurm_controller_relation_changed"
    /\ e.branch = "NeedsUpdate"
    /\ e.err = "none"

Published(bucket, art) == bucket.nonce # EmptyNonce /\ art.present

\* C5 (as claimed): the delivery of a published slurm-controller bucket that
\* updates the file does one stop and one start and leaves slurm.conf with
\* the published digest; the delivery that follows it with the bucket
\* unchanged decides UpToDate and performs no stop, start or write.
C5_SecondDeliveryIsNoOp ==
    [][ /\ (SlurmControllerRan /\ Published(ctrlBucket, ctrlBucket.slurm_conf)
                               /\ AppliedConf(ev')) =>
               /\ LocalDigest(conf') = ctrlBucket.slurm_conf.checksum
               /\ Cardinality(Ops(ev', "stop", "slurmd")) = 1
               /\ Cardinality(Ops(ev', "start", "slurmd")) = 1
        /\ (SlurmControllerRan /\ Published(ctrlBucket, ctrlBucket.slurm_conf)
                               /\ AppliedConf(ev)
                               /\ LocalDigest(conf) = ctrlBucket.slurm_conf.checksum) =>
               /\ ev'.branch = "UpToDate"
               /\ ev'.trace = << >>
               /\ conf' = conf
      ]_vars

\* C6: a slurm.conf update attempted while the slurmd package is not
\* installed ends with SlurmdNotFoundError and has done nothing: no service
\* or file operation, both files, the package state and the running state
\* as before, and no "updated" status.
C6_NotInstalledNoEffect ==
    [][ (SlurmControllerRan /\ ev'.branch = "NeedsUpdate" /\ ~slurmd.installed) =>
            /\ ev'.err = "SlurmdNotFoundError"
            /\ ev'.trace = << >>
            /\ <<conf', key', slurmd', munge'>> = <<conf, key, slurmd, munge>>
            /\ ev'.status = << "New slurm configuration detected" >>
      ]_vars

C6_Witness ==
    /\ AppliedConf([ev EXCEPT !.err = "none"])
    /\ ev.err = "SlurmdNotFoundError"
    /\ ~slurmd.installed
    /\ conf.exists
    /\ Published(ctrlBucket, ctrlBucket.slurm_conf)
    /\ LocalDigest(conf) # ctrlBucket.slurm_conf.checksum

\* C7: when a key or configuration update ends with an error, a service
\* that is running afterwards was running before and its file was never
\* touched; once the file was removed or written, or a start was attempted,
\* the service is left stopped.  The running state of slurmd goes from
\* stopped to running only in the start hook or in a slurm.conf update that
\* wrote the file, that of munge only in the start hook or in a key update
\* that wrote the file.
C7_FailedBody(step, svc, run, run2, file, file2) ==
    (step /\ ev'.branch = "NeedsUpdate" /\ ev'.err # "none") =>
        /\ run2 => (run /\ file2 = file)
        /\ (Ops(ev', "remove", svc) \cup Ops(ev', "write", svc)
                \cup Ops(ev', "start", svc)) # {} => ~run2

C7_FailedApplyLeavesStopped ==
    [][ /\ C7_FailedBody(SlurmControllerRan, "slurmd", slurmd.running, slurmd'.running,
                         conf, conf')
        /\ C7_FailedBody(AuthMungeRan, "munge", munge.running, munge'.running, key, key')
        /\ (~slurmd.running /\ slurmd'.running) =>
               \/ Ran("start")
               \/ (SlurmControllerRan /\ Ops(ev', "write", "slurmd") # {} /\ ev'.err = "none")
        /\ (~munge.running /\ munge'.running) =>
               \/ Ran("start")
               \/ (AuthMungeRan /\ Ops(ev', "write", "munge") # {} /\ ev'.err = "none")
      ]_vars

\* a slurm.conf update stopped a running slurmd, removed the file and failed
\* while writing: the file is truncated and slurmd is down
C7_Witness ==
    /\ ev.name = "slurm_controller_relation_changed"
    /\ ev.branch = "NeedsUpdate"
    /\ ev.err = "OSError"
    /\ Ops(ev, "service_stop", "slurmd") # {}
    /\ Ops(ev, "write", "slurmd") # {}
    /\ conf = File(0)
    /\ ctrlBucket.slurm_conf.present
    /\ ~slurmd.running

\* the last hook wrote slurm.conf and then asked the service manager to
\* start slurmd, and slurmd is not running: the start failed
StartFailedAfterWrite(e, run) ==
    /\ e.name = "slurm_controller_relation_changed"
    /\ Len(e.trace) > 0
    /\ e.trace[Len(e.trace)].op = "service_start"
    /\ Ops(e, "write", "slurmd") # {}
    /\ ~run

\* C8: when the start of slurmd fails after the write of slurm.conf, slurmd
\* is not running, slurm.conf holds the bytes read from the bucket, the hook
\* ends with the error of the service manager and never reports
\* "Slurm configuration updated".
C8_StartFailureKeepsNewFile ==
    [][ (SlurmControllerRan /\ StartFailedAfterWrite(ev', slurmd'.running)) =>
            /\ conf' = File(ctrlBucket.slurm_conf.data)
            /\ ev'.err = "SystemdError"
            /\ ev'.status = << "New slurm configuration detected" >>
      ]_vars

C8_Witness ==
    /\ StartFailedAfterWrite(ev, slurmd.running)
    /\ ev.err = "SystemdError"
    /\ Published(ctrlBucket, ctrlBucket.slurm_conf)
    /\ conf = File(ctrlBucket.slurm_conf.data)
    /\ Ops(ev, "remove", "slurmd") # {}
    /\ ~slurmd.running

\* ArtifactBucket.read: what the remote peer reads from the unit's bucket
PeerRead == computeBucket

\* the facts recorded when nonce n was drawn
PublishedWith(n) ==
    {published[i] : i \in {j \in DOMAIN published : published[j].nonce = n}}

\* C9 (as claimed): whenever the peer reads a non-empty nonce from the
\* unit's bucket, the other four fields are the facts of the publication
\* that drew that nonce.
C9_PublicationIsAtomic ==
    PeerRead.nonce # EmptyNonce => PeerRead \in PublishedWith(PeerRead.nonce)

\* C10: when a relation-joined hook has finished, it has assigned each of
\* the five fields of the unit's bucket exactly once, nonce first; the nonce
\* is non-empty and differs from the nonce of every earlier publication, and
\* the four facts are those of the host during the hook.  The hook is
\* enabled whatever the bucket already holds.
JoinFields == <<"nonce", "hostname", "ip_address", "cpu_count", "free_memory">>

C10_JoinPublishesOnce ==
    /\ (ev.name = "slurm_compute_relation_joined" /\ pc = "idle") =>
           /\ Len(published) > 0
           /\ computeBucket = published[Len(published)]
           /\ computeBucket.nonce # EmptyNonce
           /\ \A i \in 1..(Len(published) - 1) : published[i].nonce # computeBucket.nonce
           /\ Len(ev.trace) = Len(JoinFields)
           /\ \A i \in DOMAIN ev.trace : ev.trace[i].svc = JoinFields[i]
           /\ ev.status = << "Serving information to detected controller",
                             "Information served" >>
    /\ (pc = "idle" /\ Len(published) < MaxJoins) => ENABLED JoinBegin

\* the second publication, made after the host's facts changed
C10_Witness ==
    /\ ev.name = "slurm_compute_relation_joined"
    /\ pc = "idle"
    /\ Len(published) = 2
    /\ published[1].hostname # published[2].hostname
    /\ computeBucket.hostname = hostname(host)
    /\ computeBucket.ip_address = ipv4_address(host)
    /\ computeBucket.cpu_count = cpu_count(host)
    /\ computeBucket.free_memory = free_memory(host)

\* --------------------------------------------------- manager operations
\* C11 (as claimed): in every manager variant, start() on a running service
\* and stop() on a stopped service make no call to the service manager and
\* leave packages, services and files as they were.
StartNames == {"SlurmClientManager.start", "slurm_mngr.start", "MungeManager.start"}
StopNames  == {"SlurmClientManager.stop", "slurm_mngr.stop", "MungeManager.stop"}
MgrService(name) == IF name \in {"MungeManager.start", "MungeManager.stop",
                                 "MungeManager.install"} THEN "munge" ELSE "slurmd"
RunningOf(svc) == IF svc = "munge" THEN munge.running ELSE slurmd.running

\* the step is start() on a running service or stop() on a stopped one
RedundantCall(name) ==
    /\ Ran(name)
    /\ \/ name \in StartNames /\ RunningOf(MgrService(name))
       \/ name \in StopNames /\ ~RunningOf(MgrService(name))

StateKept == <<slurmd', munge', conf', key'>> = <<slurmd, munge, conf, key>>

NoManagerCall(e, svc) ==
    Ops(e, "service_start", svc) \cup Ops(e, "service_stop", svc) = {}

C11_NoCallInAnyVariant ==
    [][ \A name \in StartNames \cup StopNames :
            RedundantCall(name) => (StateKept /\ NoManagerCall(ev', MgrService(name)))
      ]_vars

\* C11 (amended): in every manager variant, start() on a running service
\* and stop() on a stopped service leave packages, services and files as
\* they were; SlurmClientManager of manager/slurm_client.py then makes no
\* call to the service manager and raises nothing unless slurmd is not
\* installed.
C11_RedundantCallKeepsState ==
    [][ \A name \in StartNames \cup StopNames :
            RedundantCall(name) =>
                /\ StateKept
                /\ name \in {"SlurmClientManager.start", "SlurmClientManager.stop"} =>
                       /\ NoManagerCall(ev', "slurmd")
                       /\ ev'.err = IF slurmd.installed THEN "none" ELSE "SlurmdNotFoundError"
      ]_vars

\* start() was called on a running slurmd and returned without a call
C11_Witness ==
    /\ ev.name = "SlurmClientManager.start"
    /\ ev.err = "none"
    /\ Len(ev.trace) = 1
    /\ ev.trace[1].op = "start"
    /\ ev.trace[1].up
    /\ slurmd.running

\* C12 (as claimed): an install hook that ends without an error, with the
\* status cleared as after a completed installation, has installed both
\* packages; a failed installation of slurmd ends the hook with an error.
C12_InstallFailureSurfaced ==
    (ev.name = "install" /\ ev.err = "none") =>
        (slurmd.installed /\ munge.installed)

\* C13 (as claimed): after SlurmClientManager.install() has returned, the
\* slurmd package is installed.
C13_InstallReturnsInstalled ==
    [][ (Ran("SlurmClientManager.install") /\ ev'.err = "none") => slurmd'.installed ]_vars

\* C14: a call of SlurmClientManager.start(), stop() or restart() that
\* returns leaves slurmd running, not running and running respectively,
\* whatever the running state before; with slurmd installed the call returns
\* unless the service manager fails.
C14_LifecycleReachesTarget ==
    [][ /\ (Ran("SlurmClientManager.start") /\ ev'.err = "none") => slurmd'.running
        /\ (Ran("SlurmClientManager.stop") /\ ev'.err = "none") => ~slurmd'.running
        /\ (Ran("SlurmClientManager.restart") /\ ev'.err = "none") => slurmd'.running
        /\ \A name \in {"SlurmClientManager.start", "SlurmClientManager.stop",
                        "SlurmClientManager.restart"} :
               (Ran(name) /\ slurmd.installed) => ev'.err \in {"none", "SystemdError"}
      ]_vars

\* restart() returned on a slurmd that was stopped, and slurmd runs
C14_Witness ==
    /\ ev.name = "SlurmClientManager.restart"
    /\ ev.err = "none"
    /\ Ops(ev, "service_restart", "slurmd") # {}
    /\ ~ev.trace[1].up
    /\ slurmd.running

\* C15 (as claimed): a relation-changed hook on a published bucket that
\* finds no local file takes the missing file as a digest of Absent, raises
\* no error for it, decides NeedsUpdate and goes on to apply.
C15_Body(step, bucket, art, file) ==
    (step /\ Published(bucket, art) /\ ~file.exists) =>
        /\ ev'.branch = "NeedsUpdate"
        /\ ev'.err \notin {"SlurmConfNotFoundError", "FileNotFoundError"}

C15_AbsentFileIsApplied ==
    [][ /\ C15_Body(AuthMungeRan, mungeBucket, mungeBucket.munge_key, key)
        /\ C15_Body(SlurmControllerRan, ctrlBucket, ctrlBucket.slurm_conf, conf)
      ]_vars

\* C16 (as claimed): the digest the slurm-controller hook compares with the
\* published one is the digest of the bytes of slurm.conf, whatever
\* munge.key holds.
C16_DigestOfOwnFile ==
    [][ (SlurmControllerRan /\ Published(ctrlBucket, ctrlBucket.slurm_conf)
                            /\ conf.exists /\ key.exists) =>
            /\ hash(World).val = md5(conf.bytes)
            /\ ev'.branch = "UpToDate" <=> ctrlBucket.slurm_conf.checksum = md5(conf.bytes)
      ]_vars

\* the checksum values a bucket may carry
Checksums == {md5(b) : b \in 0..NumContents} \cup {NoChecksum}

\* C17 (as claimed): for a published bucket, the decision of the hook and
\* the files and services it leaves are the same whatever checksum the
\* bucket carries next to the same nonce and the same bytes.
C17_ChecksumIsNotTrusted ==
    /\ Published(ctrlBucket, ctrlBucket.slurm_conf) =>
           \A c \in Checksums, fail \in ApplyFails :
               LET a == slurm_controller_relation_changed(World, ctrlBucket, "default", fail)
                   b == slurm_controller_relation_changed(World,
                            [ctrlBucket EXCEPT !.slurm_conf.checksum = c], "default", fail)
               IN  <<a.branch, a.conf, a.slurmd>> = <<b.branch, b.conf, b.slurmd>>
    /\ Published(mungeBucket, mungeBucket.munge_key) =>
           \A c \in Checksums, fail \in ApplyFails :
               LET a == auth_munge_relation_changed(World, mungeBucket, "default", fail)
                   b == auth_munge_relation_changed(World,
                            [mungeBucket EXCEPT !.munge_key.checksum = c], "default", fail)
               IN  <<a.branch, a.key, a.munge>> = <<b.branch, b.key, b.munge>>

\* C18 (as claimed, for the file): when the slurm-controller bucket stays
\* published with the same nonce and bytes, slurmd stays installed and the
\* hooks end without an error from some point on, then from some point on
\* slurm.conf holds the published bytes and the notifications decide
\* UpToDate.
C18_Converges ==
    \A n \in RemoteNonces \ {EmptyNonce}, b \in Contents :
        <>[](/\ ctrlBucket = [nonce |-> n, slurm_conf |-> Artifact(b)]
             /\ slurmd.installed
             /\ ev.err = "none")
        => <>[](/\ conf = File(b)
                /\ ev.name = "slurm_controller_relation_changed" => ev.branch = "UpToDate")

\* C19 (as claimed): an update from a published bucket that ends without an
\* error leaves the file with exactly the published bytes, and no such
\* update, failed or not, leaves the path of a file that was there without a
\* file.
C19_Body(step, art, file, file2) ==
    (step /\ art.present /\ ev'.branch = "NeedsUpdate") =>
        /\ ev'.err = "none" => file2 = File(art.data)
        /\ file.exists => file2.exists

C19_ApplyKeepsFileInPlace ==
    [][ /\ C19_Body(AuthMungeRan, mungeBucket.munge_key, key, key')
        /\ C19_Body(SlurmControllerRan, ctrlBucket.slurm_conf, conf, conf')
      ]_vars

\* the status reported first by a relation-changed hook
Detection(name) ==
    IF name = "auth_munge_relation_changed" THEN "New munge key detected"
    ELSE "New slurm configuration detected"

\* the status that reports a decision
Outcome(name, d) ==
    IF name = "auth_munge_relation_changed"
    THEN CASE d = "NotReady"    -> "Munge key is not ready"
           [] d = "NeedsUpdate" -> "Munge key updated"
           [] OTHER             -> "Munge key not updated"
    ELSE CASE d = "NotReady"    -> "Configuration is not ready yet"
           [] d = "NeedsUpdate" -> "Slurm configuration updated"
           [] OTHER             -> "Slurm configuration does not need to be updated"

\* C20 (as claimed, on a unit where both local files exist and for a bucket
\* that is empty or published): the statuses of a relation-changed hook are
\* the detection message and then exactly one message, the one of the
\* decision taken, on every path; "updated" is there only when the file was
\* written.
C20_Body(step, bucket, art) ==
    (step /\ conf.exists /\ key.exists /\ (bucket.nonce # EmptyNonce => art.present)) =>
        /\ Len(ev'.status) = 2
        /\ ev'.status[1] = Detection(ev'.name)
        /\ ev'.branch \in Decisions
        /\ ev'.status[2] = Outcome(ev'.name, ev'.branch)
        /\ ev'.branch = "NeedsUpdate" => Ops(ev', "write", ServiceOf(ev'.name)) # {}

C20_StatusSequence ==
    [][ /\ C20_Body(AuthMungeRan, mungeBucket, mungeBucket.munge_key)
        /\ C20_Body(SlurmControllerRan, ctrlBucket, ctrlBucket.slurm_conf)
      ]_vars

\* a step of the relation-joined hook
JoinRan == pc # "idle" \/ pc' # "idle"

\* a step of a hook of the unit, whichever it is
HookRan == ev' # ev

\* C21: a step of any hook of the unit leaves the buckets of the remote
\* application as they were; the unit's own slurm-compute bucket changes only
\* in a step of the relation-joined hook, which changes neither local file,
\* and a local file changes only in a relation-changed hook that decided
\* NeedsUpdate: munge.key in the auth-munge hook, slurm.conf in the
\* slurm-controller hook.
C21_OnlyOwnerWrites ==
    [][ /\ HookRan => <<ctrlBucket', mungeBucket'>> = <<ctrlBucket, mungeBucket>>
        /\ computeBucket' # computeBucket => JoinRan
        /\ JoinRan => <<conf', key', slurmd', munge'>> = <<conf, key, slurmd, munge>>
        /\ key' # key => (AuthMungeRan /\ ev'.branch = "NeedsUpdate")
        /\ conf' # conf => (SlurmControllerRan /\ ev'.branch = "NeedsUpdate")
      ]_vars

\* the slurm-controller hook has replaced slurm.conf from a published bucket
\* that still stands as the remote application wrote it, after the unit
\* published its own bucket
C21_Witness ==
    /\ AppliedConf(ev)
    /\ Published(ctrlBucket, ctrlBucket.slurm_conf)
    /\ conf = File(ctrlBucket.slurm_conf.data)
    /\ computeBucket.nonce # EmptyNonce
    /\ pc = "idle"

\* every operation `op` on `svc` in the trace of `e` comes after an operation
\* `op0` on `svc0`
After(e, op, svc, op0, svc0) ==
    \A i \in Ops(e, op, svc) : \E j \in Ops(e, op0, svc0) : j < i

\* C22: under install, start and stop events, failed or not, slurmd never
\* runs while munge is stopped; the install event installs slurmd only after
\* munge, the start event starts slurmd only after munge, and the stop event
\* stops munge only after slurmd.
C22_MungeBeforeSlurmd ==
    /\ slurmd.running => munge.running
    /\ ev.name = "install" => After(ev, "add_package", "slurmd", "add_package", "munge")
    /\ ev.name = "start" => After(ev, "start", "slurmd", "service_start", "munge")
    /\ ev.name = "stop" => After(ev, "service_stop", "munge", "stop", "slurmd")

\* a stop event has stopped both daemons, which were running
C22_Witness ==
    /\ ev.name = "stop"
    /\ ev.err = "none"
    /\ Ops(ev, "service_stop", "slurmd") # {}
    /\ Ops(ev, "service_stop", "munge") # {}
    /\ ev.trace[Len(ev.trace)].up
    /\ ~slurmd.running /\ ~munge.running

\* the calls of the service manager for slurmd in the trace of `e`
SlurmdCalls(e) ==
    Ops(e, "service_start", "slurmd") \cup Ops(e, "service_stop", "slurmd")
        \cup Ops(e, "service_restart", "slurmd")

\* C23: while the slurmd package is not installed, start(), stop() and
\* restart() of SlurmClientManager raise SlurmdNotFoundError, call nothing
\* and change nothing; a start or stop event then ends with an error, makes
\* no call of the service manager for slurmd and leaves slurmd as it was.
C23_NotInstalledNoCall ==
    [][ /\ \A name \in {"SlurmClientManager.start", "SlurmClientManager.stop",
                        "SlurmClientManager.restart"} :
               (Ran(name) /\ ~slurmd.installed) =>
                   /\ ev'.err = "SlurmdNotFoundError"
                   /\ ev'.trace = << >>
                   /\ <<slurmd', munge', conf', key'>> = <<slurmd, munge, conf, key>>
        /\ ((Ran("start") \/ Ran("stop")) /\ ~slurmd.installed) =>
               /\ ev'.err \in {"SlurmdNotFoundError", "DBusException"}
               /\ SlurmdCalls(ev') = {}
               /\ slurmd' = slurmd
      ]_vars

\* a start event on a unit where munge is installed and slurmd is not: munge
\* runs and the event ended with SlurmdNotFoundError
C23_Witness ==
    /\ ev.name = "start"
    /\ ev.err = "SlurmdNotFoundError"
    /\ ~slurmd.installed
    /\ munge.running

\* C24: a slurm-controller hook whose update ended without an error leaves
\* slurmd running with the published file in place, whether slurmd ran
\* before or not, and also right after a stop event that stopped it.
C24_ApplyStartsSlurmd ==
    [][ (SlurmControllerRan /\ AppliedConf(ev')) =>
            /\ slurmd'.running
            /\ Ops(ev', "write", "slurmd") # {}
            /\ ~slurmd.running => Ops(ev', "service_start", "slurmd") # {}
      ]_vars

\* the update found slurmd stopped and munge installed and stopped, as a
\* stop event leaves them, and slurmd now runs while munge does not
C24_Witness ==
    /\ AppliedConf(ev)
    /\ ~ev.trace[1].up
    /\ Ops(ev, "service_start", "slurmd") # {}
    /\ slurmd.running
    /\ munge.installed /\ ~munge.running

====
